---- MODULE Spec2Model ----
(***************************************************************************)
(* A model of three parts of the shaper point-cloud framework:             *)
(*   - shaper/utils/checkpoint.py : Checkpointer (save / load / pointer    *)
(*     file), over a small file system;                                    *)
(*   - shaper/models/build.py     : the registry of model builders;        *)
(*   - shaper/engine/tester.py    : test_model's loop over the data loader.*)
(* Strings are sequences of one-character strings, dictionaries are        *)
(* functions whose domain is a set of key strings.                         *)
(***************************************************************************)
EXTENDS Integers, Sequences, FiniteSets, TLC

VARIABLES
    \* ---- Checkpointer and the file system it works on
    save_dir,     \* self.save_dir (a string, possibly empty)
    model,        \* version of the model's weights (what state_dict() returns)
    optimizer,    \* version of the optimizer state, or None when there is no optimizer
    scheduler,    \* version of the scheduler state, or None when there is no scheduler
    ckpts,        \* file system: path -> dictionary, the files written by torch.save
    texts,        \* file system: path -> string, the plain-text files
    dirs,         \* file system: the directories that exist
    lastOp,       \* the most recent Checkpointer call with its arguments and outcome
    lastSave,     \* the most recent save that returned normally after writing
    \* ---- registry of model builders
    MODEL_BUILDERS,  \* _MODEL_BUILDERS: name -> builder
    origin,          \* history: name -> the builder it was first registered with
    lastBuild,       \* the most recent build_model / register_model_builder call
    \* ---- test_model
    data_loader,      \* the batches the loader yields, each a sequence of samples
    with_label,       \* the with_label argument of the running call
    pc,               \* "loop" while iterating, "done" after the return
    iteration,        \* number of batches consumed so far
    test_result_dict, \* key -> list of per-batch outputs, then key -> concatenation
    loss_calls,       \* number of loss_fn invocations of the running call
    metric_calls,     \* number of metric_fn invocations of the running call
    meters,           \* MetricLogger: number of updates carrying a loss
    returned,         \* with_label -> predictions returned by a finished call
    \* ---- ShapeNetFewShot
    meta_data,        \* the samples of the dataset: class and number of points in the file
    num_points,       \* self.num_points
    shuffle_points,   \* self.shuffle_points
    item,             \* the most recent __getitem__ call: index and what it returned
    \* ---- IntersectionAndUnion
    num_classes,      \* self.num_classes
    seg_logit,        \* preds["seg_logit"]: per point, the score of every class
    seg_label,        \* labels["seg_label"]: per point, the true class
    mIOU,             \* the most recent forward call: what it returned
    \* ---- freeze_by_patterns
    training,         \* module.training of every module of the network
    requires_grad,    \* params.requires_grad of every parameter of the network
    frozen            \* the most recent freeze_by_patterns call: its patterns

ckptVars == <<save_dir, model, optimizer, scheduler, ckpts, texts, dirs, lastOp, lastSave>>
buildVars == <<MODEL_BUILDERS, origin, lastBuild>>
testVars == <<data_loader, with_label, pc, iteration, test_result_dict, loss_calls,
              metric_calls, meters, returned>>
dataVars == <<meta_data, num_points, shuffle_points, item>>
metricVars == <<num_classes, seg_logit, seg_label, mIOU>>
freezeVars == <<training, requires_grad, frozen>>
vars == <<ckptVars, buildVars, testVars, dataVars, metricVars, freezeVars>>

----------------------------------------------------------------------------
\* Bounds of the model

\* the weights, optimizer and scheduler states take the versions 0..MaxStep
MaxStep == 1
\* at most MaxSaves calls of save are explored in one behaviour
MaxSaves == 1

----------------------------------------------------------------------------
\* Strings and os.path (posixpath)

None == -1

EmptyStr == <<>>
SEP == "/"
WS == " "
PTH == <<".", "p", "t", "h">>

startswith(s, c) == Len(s) > 0 /\ s[1] = c
endswith(s, c) == Len(s) > 0 /\ s[Len(s)] = c

\* posixpath.isabs
isabs(s) == startswith(s, SEP)

\* posixpath.join(a, b)
join(a, b) ==
    IF startswith(b, SEP) THEN b
    ELSE IF a = EmptyStr \/ endswith(a, SEP) THEN a \o b
    ELSE a \o <<SEP>> \o b

\* s.rfind("/") + 1
rfindSep(s) ==
    LET hits == {i \in 1..Len(s) : s[i] = SEP}
    IN IF hits = {} THEN 0 ELSE CHOOSE i \in hits : \A j \in hits : j <= i

\* posixpath.basename
basename(p) == SubSeq(p, rfindSep(p) + 1, Len(p))

\* posixpath.dirname
RECURSIVE rstripSep(_)
rstripSep(s) == IF endswith(s, SEP) THEN rstripSep(SubSeq(s, 1, Len(s) - 1)) ELSE s

dirname(p) ==
    LET head == SubSeq(p, 1, rfindSep(p))
    IN IF head # EmptyStr /\ \E i \in 1..Len(head) : head[i] # SEP
       THEN rstripSep(head) ELSE head

\* str.strip()
RECURSIVE lstrip(_)
lstrip(s) == IF startswith(s, WS) THEN lstrip(Tail(s)) ELSE s

RECURSIVE rstrip(_)
rstrip(s) == IF endswith(s, WS) THEN rstrip(SubSeq(s, 1, Len(s) - 1)) ELSE s

strip(s) == rstrip(lstrip(s))

\* "{}.pth".format(name)
pth(name) == name \o PTH

----------------------------------------------------------------------------
\* Dictionaries

EmptyDict == [k \in {} |-> [kind |-> "none", v |-> 0]]

\* d.update(e)
update(d, e) == [k \in DOMAIN d \cup DOMAIN e |-> IF k \in DOMAIN e THEN e[k] ELSE d[k]]

\* d after d.pop(k) for every k of ks
without(d, ks) == [k \in DOMAIN d \ ks |-> d[k]]

\* state_dict() of the model, the optimizer or the scheduler at version n
state_dict(kind, n) == [kind |-> kind, v |-> n]

\* load_state_dict accepts exactly the state dicts of its own kind
accepts(kind, sd) == sd.kind = kind

----------------------------------------------------------------------------
\* The file system

exists(p) == p \in DOMAIN ckpts \/ p \in DOMAIN texts \/ p \in dirs

WriteFile(fs, p, c) == [q \in DOMAIN fs \cup {p} |-> IF q = p THEN c ELSE fs[q]]
RemoveFile(fs, p) == [q \in DOMAIN fs \ {p} |-> fs[q]]

\* open(p, "w") and torch.save(obj, p) need the directory of p
canCreate(p) == dirname(p) \in dirs /\ p \notin dirs

----------------------------------------------------------------------------
\* Inputs

SaveDirs == {EmptyStr, <<"d">>, <<"/", "d">>}
Names == {<<"a">>, <<" ", "a">>, <<"a", "/", "b">>, <<"b", "/", "a">>}
TagFiles == {<<"t">>}
Junk == [kind |-> "int", v |-> 1]
Extras == {[epoch |-> Junk], [model |-> Junk], [optimizer |-> Junk]}
Pretrained == <<"/", "w">> \o PTH
Missing == <<"/", "x">> \o PTH
LoadFiles == {EmptyStr, Pretrained, Missing}

NoOp ==
    [op |-> "none", name |-> EmptyStr, tag |-> EmptyStr, f |-> EmptyStr, resume |-> FALSE,
     kwargs |-> EmptyDict, file |-> EmptyStr, ret |-> EmptyDict, raised |-> FALSE,
     saves |-> 0]

NoSave ==
    [done |-> FALSE, name |-> EmptyStr, tag |-> EmptyStr, kwargs |-> EmptyDict,
     file |-> EmptyStr, m |-> 0, o |-> 0, s |-> 0]

----------------------------------------------------------------------------
\* Checkpointer

\* Checkpointer.__init__, on a file system holding a pretrained weight file
CheckpointerInit ==
    /\ save_dir \in SaveDirs
    /\ model = 0
    /\ optimizer \in {None, 0}
    /\ scheduler \in IF optimizer = None THEN {None} ELSE {None, 0}
    /\ ckpts = [p \in {Pretrained} |-> [model |-> state_dict("model", 0)]]
    /\ texts = [p \in {} |-> EmptyStr]
    /\ dirs = {EmptyStr, <<SEP>>} \cup
              (IF save_dir = EmptyStr THEN {} ELSE {save_dir, join(save_dir, <<"a">>)})
    /\ lastOp = NoOp
    /\ lastSave = NoSave

\* data, as built by save before it is written
saveData(kwargs) ==
    LET d0 == [model |-> state_dict("model", model)]
        d1 == IF optimizer # None
              THEN update(d0, [optimizer |-> state_dict("optimizer", optimizer)]) ELSE d0
        d2 == IF scheduler # None
              THEN update(d1, [scheduler |-> state_dict("scheduler", scheduler)]) ELSE d1
    IN update(d2, kwargs)

\* what tag_last_checkpoint writes into the pointer file
tagContent(last_filename) ==
    IF ~isabs(last_filename) THEN basename(last_filename) ELSE last_filename

\* Checkpointer.has_checkpoint
has_checkpoint(tag_file) == exists(join(save_dir, tag_file))

\* last_saved with the path of the pointer file in the place of ""
onIOError_path(save_file) == save_file

\* except IOError: last_saved = ""
onIOError(save_file) == EmptyStr

\* Checkpointer.get_checkpoint_file over the text files there are when it opens the
\* pointer file; a pointer file that cannot be opened gives ""
get_checkpoint_file_in(files, tag_file) ==
    LET save_file == join(save_dir, tag_file)
    IN IF save_file \in DOMAIN files
       THEN LET last_saved == strip(files[save_file])
            IN IF ~isabs(last_saved) THEN join(save_dir, last_saved) ELSE last_saved
       ELSE onIOError(save_file)

\* Checkpointer.get_checkpoint_file
get_checkpoint_file(tag_file) == get_checkpoint_file_in(texts, tag_file)

\* Checkpointer.save
save(name, tag_file, kwargs) ==
    LET data == saveData(kwargs)
        save_file == join(save_dir, pth(name))
        tag_path == join(save_dir, tag_file)
        op == [NoOp EXCEPT !.op = "save", !.name = name, !.tag = tag_file,
                           !.kwargs = kwargs, !.saves = lastOp.saves + 1]
    IN /\ lastOp.saves < MaxSaves
       /\ IF save_dir = EmptyStr
          THEN /\ lastOp' = op
               /\ UNCHANGED <<ckpts, texts, lastSave>>
          ELSE IF ~canCreate(save_file)
          THEN \* torch.save raises: nothing is written, the pointer is not touched
               /\ lastOp' = [op EXCEPT !.raised = TRUE]
               /\ UNCHANGED <<ckpts, texts, lastSave>>
          ELSE /\ ckpts' = RemoveFile(WriteFile(ckpts, save_file, data), tag_path)
               /\ texts' = WriteFile(RemoveFile(texts, save_file), tag_path,
                                     tagContent(save_file))
               /\ lastOp' = [op EXCEPT !.file = save_file]
               /\ lastSave' = [done |-> TRUE, name |-> name, tag |-> tag_file,
                               kwargs |-> kwargs, file |-> save_file,
                               m |-> model, o |-> optimizer, s |-> scheduler]
       /\ UNCHANGED <<save_dir, model, optimizer, scheduler, dirs>>

\* loadSource with the resume flag left out of the test
loadSource_ignoresResume(f, resume, tag_file) ==
    IF has_checkpoint(tag_file) THEN get_checkpoint_file(tag_file) ELSE f

\* the path load hands to _load_file ("" when it finds no checkpoint)
loadSource(f, resume, tag_file) ==
    IF resume /\ has_checkpoint(tag_file) THEN get_checkpoint_file(tag_file) ELSE f

\* noCheckpoint with the test left out: an empty path goes on to _load_file
noCheckpoint_untested(f) == FALSE

\* "if not f": the path is empty or None
noCheckpoint(f) == f = EmptyStr

\* Checkpointer.load from "if not f" on, src being the value of f there
load_file(f, resume, tag_file, src) ==
    LET op == [NoOp EXCEPT !.op = "load", !.f = f, !.resume = resume, !.tag = tag_file,
                           !.file = src, !.saves = lastOp.saves]
    IN /\ IF noCheckpoint(src)
          THEN \* no checkpoint could be found
               /\ lastOp' = op
               /\ UNCHANGED <<model, optimizer, scheduler>>
          ELSE IF src \notin DOMAIN ckpts
          THEN \* _load_file raises
               /\ lastOp' = [op EXCEPT !.raised = TRUE]
               /\ UNCHANGED <<model, optimizer, scheduler>>
          ELSE LET checkpoint == ckpts[src]
                   hasM == "model" \in DOMAIN checkpoint
                   okM == hasM /\ accepts("model", checkpoint["model"])
                   doO == "optimizer" \in DOMAIN checkpoint /\ optimizer # None
                   okO == doO => accepts("optimizer", checkpoint["optimizer"])
                   doS == "scheduler" \in DOMAIN checkpoint /\ scheduler # None
                   okS == doS => accepts("scheduler", checkpoint["scheduler"])
                   popped == {"model"} \cup (IF doO THEN {"optimizer"} ELSE {})
                                       \cup (IF doS THEN {"scheduler"} ELSE {})
               IN /\ model' = IF okM THEN checkpoint["model"].v ELSE model
                  /\ optimizer' = IF okM /\ doO /\ okO
                                  THEN checkpoint["optimizer"].v ELSE optimizer
                  /\ scheduler' = IF okM /\ okO /\ doS /\ okS
                                  THEN checkpoint["scheduler"].v ELSE scheduler
                  /\ lastOp' = IF okM /\ okO /\ okS
                               THEN [op EXCEPT !.ret = without(checkpoint, popped)]
                               ELSE [op EXCEPT !.raised = TRUE]

\* Checkpointer.load
load(f, resume, tag_file) ==
    /\ load_file(f, resume, tag_file, loadSource(f, resume, tag_file))
    /\ UNCHANGED <<save_dir, ckpts, texts, dirs, lastSave>>

\* Checkpointer.load with another process at work: has_checkpoint finds the pointer
\* file, the other process deletes it, and then get_checkpoint_file tries to open it
load_unlinked(f, resume, tag_file) ==
    LET save_file == join(save_dir, tag_file)
        unlinked == RemoveFile(texts, save_file)
    IN /\ resume /\ has_checkpoint(tag_file)
       /\ save_file \in DOMAIN texts
       /\ load_file(f, resume, tag_file, get_checkpoint_file_in(unlinked, tag_file))
       /\ texts' = unlinked
       /\ UNCHANGED <<save_dir, ckpts, dirs, lastSave>>

\* one step of training between checkpoint calls: every state that exists advances
Train ==
    /\ model < MaxStep
    /\ model' = model + 1
    /\ optimizer' = IF optimizer # None /\ optimizer < MaxStep THEN optimizer + 1 ELSE optimizer
    /\ scheduler' = IF scheduler # None /\ scheduler < MaxStep THEN scheduler + 1 ELSE scheduler
    /\ lastOp' = [NoOp EXCEPT !.op = "train", !.saves = lastOp.saves]
    /\ UNCHANGED <<save_dir, ckpts, texts, dirs, lastSave>>

Save == \E name \in Names, tag_file \in TagFiles, kwargs \in Extras : save(name, tag_file, kwargs)

Load == \E f \in LoadFiles, resume \in BOOLEAN, tag_file \in TagFiles :
            load(f, resume, tag_file)

LoadUnlinked == \E f \in LoadFiles, resume \in BOOLEAN, tag_file \in TagFiles :
                    load_unlinked(f, resume, tag_file)

----------------------------------------------------------------------------
\* Registry of model builders (shaper/models/build.py)

BuiltinBuilders ==
    [POINTNET |-> "build_pointnet", DGCNN |-> "build_dgcnn", PN2SSG |-> "build_pointnet2ssg",
     PN2MSG |-> "build_pointnet2msg", PNS2CNN |-> "build_pns2cnn", S2CNN |-> "build_s2cnn"]

RegisterNames == {"POINTNET", "S2CNN", "PN2SSG_COMPARE", "FEWSHOT"}
RegisterBuilders == {"build_pointnet", "build_pn2ssg_compare", "build_fewshot"}
\* configurations: MODEL.TYPE and the rest of the tree
Configs == [TYPE : DOMAIN BuiltinBuilders \cup {"PN2SSG_COMPARE", "FEWSHOT"}, rest : {"cfg1", "cfg2"}]

NoConfig == [TYPE |-> "", rest |-> ""]
NoResult == [builder |-> "", arg |-> NoConfig]

NoBuild ==
    [op |-> "none", name |-> "", builder |-> "", cfg |-> NoConfig, result |-> NoResult,
     raised |-> FALSE]

BuildInit ==
    /\ MODEL_BUILDERS = BuiltinBuilders
    /\ origin = BuiltinBuilders
    /\ lastBuild = NoBuild

\* what builder(cfg) returns: the builders themselves are not part of the model
call(builder, cfg) == [builder |-> builder, arg |-> cfg]

\* build_model: the registered builder is looked up (KeyError when there is none)
\* and called with cfg; its result is returned
build_model(cfg) ==
    /\ IF cfg.TYPE \in DOMAIN MODEL_BUILDERS
       THEN lastBuild' = [NoBuild EXCEPT !.op = "build", !.cfg = cfg,
                                         !.result = call(MODEL_BUILDERS[cfg.TYPE], cfg)]
       ELSE lastBuild' = [NoBuild EXCEPT !.op = "build", !.cfg = cfg, !.raised = TRUE]
    /\ UNCHANGED <<MODEL_BUILDERS, origin>>

\* setitem that stores the builder under the wrong key
setitem_wrongKey(d, name, builder) ==
    [n \in DOMAIN d \cup {builder} |-> IF n = builder THEN builder ELSE d[n]]

\* the registry after _MODEL_BUILDERS[name] = builder
setitem(d, name, builder) ==
    [n \in DOMAIN d \cup {name} |-> IF n = name THEN builder ELSE d[n]]

\* register_model_builder without the duplicate test: the entry is overwritten
register_model_builder_overwrites(name, builder) ==
    /\ MODEL_BUILDERS' = setitem(MODEL_BUILDERS, name, builder)
    /\ origin' = IF name \in DOMAIN origin THEN origin ELSE setitem(origin, name, builder)
    /\ lastBuild' = [NoBuild EXCEPT !.op = "register", !.name = name, !.builder = builder]

\* register_model_builder
register_model_builder(name, builder) ==
    IF name \in DOMAIN MODEL_BUILDERS
    THEN /\ lastBuild' = [NoBuild EXCEPT !.op = "register", !.name = name,
                                         !.builder = builder, !.raised = TRUE]
         /\ UNCHANGED <<MODEL_BUILDERS, origin>>
    ELSE /\ MODEL_BUILDERS' = setitem(MODEL_BUILDERS, name, builder)
         /\ origin' = IF name \in DOMAIN origin THEN origin ELSE setitem(origin, name, builder)
         /\ lastBuild' = [NoBuild EXCEPT !.op = "register", !.name = name, !.builder = builder]

Build == \E cfg \in Configs : build_model(cfg)

Register == \E name \in RegisterNames, builder \in RegisterBuilders :
                register_model_builder(name, builder)

----------------------------------------------------------------------------
\* test_model (shaper/engine/tester.py)

\* a batch holds at most MaxBatchSize samples, a loader yields at most MaxBatches batches
MaxBatchSize == 2
MaxBatches == 2

Samples == {"x", "y"}
PredKeys == {"cls_logits", "trans_input"}

SeqsUpTo(S, lo, hi) == UNION {[1..n -> S] : n \in lo..hi}
Batches == SeqsUpTo(Samples, 1, MaxBatchSize)
Loaders == SeqsUpTo(Batches, 0, MaxBatches)

NoDict == [k \in {} |-> <<>>]
NotReturned == [set |-> FALSE, preds |-> NoDict]

\* the model in eval mode: one output row per sample and key
forward(k, sample) == [key |-> k, of |-> sample]

\* preds = model(data_batch)
model_call(data_batch) ==
    [k \in PredKeys |-> [i \in 1..Len(data_batch) |-> forward(k, data_batch[i])]]

\* np.concatenate(v, axis=0)
RECURSIVE concatenate(_)
concatenate(v) == IF v = <<>> THEN <<>> ELSE Head(v) \o concatenate(Tail(v))

\* append that puts the batch in front
append_inFront(lst, v) == <<v>> \o lst

\* test_result_dict[k].append(v)
append(lst, v) == Append(lst, v)

\* computesLoss with the test left out
computesLoss_always(wl) == TRUE

\* "if with_label": the loss and the metric are computed for the batch
computesLoss(wl) == wl

TestInit ==
    /\ data_loader \in Loaders
    /\ with_label \in BOOLEAN
    /\ pc = "loop"
    /\ iteration = 0
    /\ test_result_dict = NoDict
    /\ loss_calls = 0
    /\ metric_calls = 0
    /\ meters = 0
    /\ returned = [w \in BOOLEAN |-> NotReturned]

\* one iteration of the loop over the data loader
TestBatch ==
    /\ pc = "loop"
    /\ iteration < Len(data_loader)
    /\ LET data_batch == data_loader[iteration + 1]
           preds == model_call(data_batch)
       IN test_result_dict' =
              [k \in DOMAIN test_result_dict \cup DOMAIN preds |->
                  IF k \in DOMAIN preds
                  THEN append(IF k \in DOMAIN test_result_dict THEN test_result_dict[k] ELSE <<>>,
                              preds[k])
                  ELSE test_result_dict[k]]
    /\ IF computesLoss(with_label)
       THEN /\ loss_calls' = loss_calls + 1
            /\ metric_calls' = metric_calls + 1
            /\ meters' = meters + 1
       ELSE UNCHANGED <<loss_calls, metric_calls, meters>>
    /\ iteration' = iteration + 1
    /\ UNCHANGED <<data_loader, with_label, pc, returned>>

\* the loop is over: concatenate and return
TestReturn ==
    /\ pc = "loop"
    /\ iteration = Len(data_loader)
    /\ test_result_dict' = [k \in DOMAIN test_result_dict |-> concatenate(test_result_dict[k])]
    /\ returned' = [returned EXCEPT ![with_label] = [set |-> TRUE, preds |-> test_result_dict']]
    /\ pc' = "done"
    /\ UNCHANGED <<data_loader, with_label, iteration, loss_calls, metric_calls, meters>>

\* test_model is entered again with the same model and loader
TestCall ==
    /\ pc = "done"
    /\ with_label' \in BOOLEAN
    /\ pc' = "loop"
    /\ iteration' = 0
    /\ test_result_dict' = NoDict
    /\ loss_calls' = 0
    /\ metric_calls' = 0
    /\ meters' = 0
    /\ UNCHANGED <<data_loader, returned>>

----------------------------------------------------------------------------
\* ShapeNetFewShot.__getitem__ (shaper_few_shot/data/datasets/shapenet_fewshot.py)

\* a file holds at most MaxPoints points, num_points is at most MaxNumPoints
MaxPoints == 3
MaxNumPoints == 5

Classes == <<"chair", "lamp">>
NoItem == [called |-> FALSE, index |-> 0, points |-> <<>>, cls_labels |-> 0]

\* self.classes_to_ind_map
classes_to_ind_map(c) == CHOOSE i \in 1..Len(Classes) : Classes[i] = c

\* _load_pts: the points of the file of sample index, in file order
load_pts(index) == [i \in 1..meta_data[index].n |-> [of |-> index, row |-> i]]

\* np.arange(n), counted from 1
arange(n) == [i \in 1..n |-> i]

\* what np.random.permutation(x) may return
permutation(x) ==
    {[i \in 1..Len(x) |-> x[p[i]]] :
        p \in {q \in [1..Len(x) -> 1..Len(x)] : \A i, j \in 1..Len(x) : q[i] = q[j] => i = j}}

\* x[:k] for k >= 0
upTo(x, k) == SubSeq(x, 1, IF k < Len(x) THEN k ELSE Len(x))

\* the choices __getitem__ may end with for first, the choice before cropping or padding
cropOrPad(first, n) ==
    IF num_points > 0
    THEN IF n >= num_points
         THEN {upTo(first, num_points)}
         ELSE {first \o upTo(pad, num_points - n) : pad \in permutation(first)}
    ELSE {first}

DataInit ==
    /\ meta_data \in [1..Len(Classes) -> [class : {Classes[1], Classes[2]}, n : 1..MaxPoints]]
    /\ num_points \in {-1} \cup 1..MaxNumPoints
    /\ shuffle_points \in BOOLEAN
    /\ item = NoItem

\* ShapeNetFewShot.__getitem__, without a transform
getitem(index) ==
    LET class_ind == classes_to_ind_map(meta_data[index].class)
        points == load_pts(index)
        n == Len(points)
    IN /\ \E first \in IF shuffle_points THEN permutation(arange(n)) ELSE {arange(n)} :
          \E choice \in cropOrPad(first, n) :
             item' = [called |-> TRUE, index |-> index,
                      points |-> [i \in 1..Len(choice) |-> points[choice[i]]],
                      cls_labels |-> class_ind]
       /\ UNCHANGED <<meta_data, num_points, shuffle_points>>

GetItem == \E index \in DOMAIN meta_data : getitem(index)

----------------------------------------------------------------------------
\* IntersectionAndUnion.forward (shaper/models/metric.py)

\* at most MaxClasses classes and MaxSegPoints points in a batch
MaxClasses == 3
MaxSegPoints == 2

\* the scores of one point: one class above the others, or all classes level
Logits ==
    {[c \in 0..(num_classes - 1) |-> IF c = top THEN 1 ELSE 0] : top \in (-1)..(num_classes - 1)}
NoMetric == [called |-> FALSE, pred_label |-> <<>>, intersection |-> <<>>, union |-> <<>>]

smallest(x) == CHOOSE v \in {x[i] : i \in 1..Len(x)} : \A i \in 1..Len(x) : v <= x[i]
largest(x) == CHOOSE v \in {x[i] : i \in 1..Len(x)} : \A i \in 1..Len(x) : v >= x[i]

\* binOf without the rule for the upper end of the range
binOf_upperEndOut(v, bins, lo, hi) == ((v - lo) * bins) \div (hi - lo) + 1

\* the bin of v among bins equal bins over [lo, hi], counted from 1; hi is in the last
binOf(v, bins, lo, hi) == IF v = hi THEN bins ELSE ((v - lo) * bins) \div (hi - lo) + 1

\* torch.histc(x, bins, min, max): elements outside [min, max] are not counted; min
\* and max both zero stand for the range of the data, and an empty range is widened
histc(x, bins, min, max) ==
    IF x = <<>> THEN [b \in 1..bins |-> 0]
    ELSE LET lo0 == IF min = 0 /\ max = 0 THEN smallest(x) ELSE min
             hi0 == IF min = 0 /\ max = 0 THEN largest(x) ELSE max
             lo == IF lo0 = hi0 THEN lo0 - 1 ELSE lo0
             hi == IF lo0 = hi0 THEN hi0 + 1 ELSE hi0
         IN [b \in 1..bins |->
                Cardinality({i \in 1..Len(x) :
                                x[i] >= lo /\ x[i] <= hi /\ binOf(x[i], bins, lo, hi) = b})]

\* what seg_logit.argmax(1) may return: per point, a class of the highest score
argmax(logit) ==
    {pl \in [1..Len(logit) -> 0..(num_classes - 1)] :
        \A i \in 1..Len(logit) : \A c \in 0..(num_classes - 1) : logit[i][pl[i]] >= logit[i][c]}

\* x[mask]
masked(x, mask) ==
    LET keep == {i \in 1..Len(x) : mask[i]}
        RECURSIVE pick(_)
        pick(k) == IF k > Len(x) THEN <<>>
                   ELSE (IF k \in keep THEN <<x[k]>> ELSE <<>>) \o pick(k + 1)
    IN pick(1)

MetricInit ==
    /\ num_classes \in 1..MaxClasses
    /\ \E n \in 1..MaxSegPoints :
          /\ seg_logit \in [1..n -> Logits]
          /\ seg_label \in [1..n -> 0..(num_classes - 1)]
    /\ mIOU = NoMetric

\* IntersectionAndUnion.forward
forward_iou(pred_label) ==
    LET hit == masked(pred_label, [i \in 1..Len(pred_label) |-> pred_label[i] = seg_label[i]])
        intersection == histc(hit, num_classes, 0, num_classes - 1)
        total_num_pred == histc(pred_label, num_classes, 0, num_classes - 1)
        total_num_label == histc(seg_label, num_classes, 0, num_classes - 1)
        union == [b \in 1..num_classes |->
                     total_num_pred[b] + total_num_label[b] - intersection[b]]
    IN /\ mIOU' = [called |-> TRUE, pred_label |-> pred_label,
                   intersection |-> intersection, union |-> union]
       /\ UNCHANGED <<num_classes, seg_logit, seg_label>>

Forward == \E pred_label \in argmax(seg_logit) : forward_iou(pred_label)

----------------------------------------------------------------------------
\* freeze_by_patterns (shaper/nn/freeze_weight.py)

\* at most MaxPatterns patterns in a call
MaxPatterns == 2

DOT == "."
ModulePrefix == <<"m", "o", "d", "u", "l", "e", ":">>

\* str.startswith
startswith_str(s, prefix) == Len(s) >= Len(prefix) /\ SubSeq(s, 1, Len(prefix)) = prefix

\* the network: the root module, its children a and b, and a's child b; each module
\* has one parameter w of its own
ROOT == EmptyStr
Modules == {ROOT, <<"a">>, <<"a", ".", "b">>, <<"b">>}

\* module._modules of the module with the given full name: the names of its children
submodules(full_name) ==
    IF full_name = ROOT THEN <<<<"a">>, <<"b">>>>
    ELSE IF full_name = <<"a">> THEN <<<<"b">>>>
    ELSE <<>>

\* module._parameters: the names of its own parameters
own_parameters(full_name) == <<<<"w">>>>

\* prefix + ('.' if prefix else '') + name
qualified(prefix, name) == prefix \o (IF prefix # EmptyStr THEN <<DOT>> ELSE <<>>) \o name

\* the modules of the subtree of a module, the module included
RECURSIVE modulesBelow(_)
modulesBelow(m) ==
    {m} \cup UNION {modulesBelow(qualified(m, submodules(m)[k])) : k \in 1..Len(submodules(m))}

\* the parameters of the subtree of a module, by their names from the root
parametersBelow(m) ==
    UNION {{qualified(x, own_parameters(x)[k]) : k \in 1..Len(own_parameters(x))} :
           x \in modulesBelow(m)}

\* both, tabulated by module
ModuleTable == [m \in Modules |-> modulesBelow(m)]
ParameterTable == [m \in Modules |-> parametersBelow(m)]

\* module.named_modules(), module.named_parameters()
named_modules(m) == ModuleTable[m]
named_parameters(m) == ParameterTable[m]

\* the parameters of the network
Parameters == named_parameters(ROOT)

\* re.search for patterns of literal characters, '.', a leading '^' and a trailing '$'
RECURSIVE matchHere(_, _)
matchHere(re, s) ==
    IF re = <<>> THEN TRUE
    ELSE IF re = <<"$">> THEN s = <<>>
    ELSE IF s # <<>> /\ (re[1] = DOT \/ re[1] = s[1]) THEN matchHere(Tail(re), Tail(s))
    ELSE FALSE

search(re, s) ==
    IF re # <<>> /\ re[1] = "^" THEN matchHere(Tail(re), s)
    ELSE \E k \in 0..Len(s) : matchHere(re, SubSeq(s, k + 1, Len(s)))

\* the patterns a caller passes
Patterns ==
    {<<"a", ".", "w">>, <<"^", "b">>,
     ModulePrefix \o <<"b">>, ModulePrefix \o <<"^", "a", "$">>, ModulePrefix \o <<"a", ".", "b">>}

NoFreeze == [called |-> FALSE, patterns |-> <<>>]

\* the flags of a network: st.training by module, st.requires_grad by parameter

\* freeze_all_params
freeze_all_params(st, m) ==
    [st EXCEPT !.requires_grad =
        [p \in Parameters |-> IF p \in named_parameters(m) THEN FALSE ELSE @[p]]]

\* m.eval(): the module and every module below it
eval(st, m) ==
    [st EXCEPT !.training =
        [x \in Modules |-> IF x \in named_modules(m) THEN FALSE ELSE @[x]]]

\* freeze_params
freeze_params(st, frozen_params) ==
    [st EXCEPT !.requires_grad =
        [p \in Parameters |->
            IF \E j \in 1..Len(frozen_params) : search(frozen_params[j], p) THEN FALSE ELSE @[p]]]

\* freeze_modules: for every child (k), for every pattern (j), freeze the child or descend
RECURSIVE freeze_modules(_, _, _)
RECURSIVE freeze_modules_loop(_, _, _, _, _)
freeze_modules_loop(st, prefix, frozen_modules, k, j) ==
    IF k > Len(submodules(prefix)) THEN st
    ELSE IF j > Len(frozen_modules) THEN freeze_modules_loop(st, prefix, frozen_modules, k + 1, 1)
    ELSE LET full_name == qualified(prefix, submodules(prefix)[k])
             st1 == IF search(frozen_modules[j], full_name)
                    THEN freeze_all_params(eval(st, full_name), full_name)
                    ELSE freeze_modules(st, full_name, frozen_modules)
         IN freeze_modules_loop(st1, prefix, frozen_modules, k, j + 1)

freeze_modules(st, prefix, frozen_modules) == freeze_modules_loop(st, prefix, frozen_modules, 1, 1)

isModulePattern(pattern) == startswith_str(pattern, ModulePrefix)
isParamPattern(pattern) == ~isModulePattern(pattern)

\* pattern[6:]
stripPrefix_keepsColon(pattern) == SubSeq(pattern, Len(ModulePrefix), Len(pattern))

\* pattern[7:]
stripPrefix(pattern) == SubSeq(pattern, Len(ModulePrefix) + 1, Len(pattern))

\* the patterns of frozen_modules, as freeze_by_patterns collects them
moduleParts(patterns) ==
    LET chosen == SelectSeq(patterns, isModulePattern)
    IN [i \in 1..Len(chosen) |-> stripPrefix(chosen[i])]

\* freeze_by_patterns
freeze_by_patterns(st, patterns) ==
    LET frozen_params == SelectSeq(patterns, isParamPattern)
        frozen_modules == moduleParts(patterns)
    IN freeze_modules(freeze_params(st, frozen_params), ROOT, frozen_modules)

\* a network as constructed, after train() or eval()
FreezeInit ==
    /\ training \in {[m \in Modules |-> TRUE], [m \in Modules |-> FALSE]}
    /\ requires_grad = [p \in Parameters |-> TRUE]
    /\ frozen = NoFreeze

Freeze ==
    \E n \in 0..MaxPatterns : \E patterns \in [1..n -> Patterns] :
        \E st \in {freeze_by_patterns([training |-> training, requires_grad |-> requires_grad],
                                       patterns)} :
           /\ training' = st.training
           /\ requires_grad' = st.requires_grad
           /\ frozen' = [called |-> TRUE, patterns |-> patterns]

----------------------------------------------------------------------------
\* Specifications

FreezeIdle ==
    /\ training = <<>>
    /\ requires_grad = <<>>
    /\ frozen = NoFreeze

MetricIdle ==
    /\ num_classes = 1
    /\ seg_logit = <<>>
    /\ seg_label = <<>>
    /\ mIOU = NoMetric

DataIdle ==
    /\ meta_data = <<>>
    /\ num_points = -1
    /\ shuffle_points = FALSE
    /\ item = NoItem

CheckpointerIdle ==
    /\ save_dir = EmptyStr
    /\ model = 0
    /\ optimizer = None
    /\ scheduler = None
    /\ ckpts = [p \in {} |-> EmptyDict]
    /\ texts = [p \in {} |-> EmptyStr]
    /\ dirs = {}
    /\ lastOp = NoOp
    /\ lastSave = NoSave

TestIdle ==
    /\ data_loader = <<>>
    /\ with_label = TRUE
    /\ pc = "idle"
    /\ iteration = 0
    /\ test_result_dict = NoDict
    /\ loss_calls = 0
    /\ metric_calls = 0
    /\ meters = 0
    /\ returned = [w \in BOOLEAN |-> NotReturned]

\* the Checkpointer
Init == CheckpointerInit /\ BuildInit /\ TestIdle /\ DataIdle /\ MetricIdle /\ FreezeIdle

Next ==
    \/ Save /\ UNCHANGED <<buildVars, testVars, dataVars, metricVars, freezeVars>>
    \/ Load /\ UNCHANGED <<buildVars, testVars, dataVars, metricVars, freezeVars>>
    \/ Train /\ UNCHANGED <<buildVars, testVars, dataVars, metricVars, freezeVars>>

Spec == Init /\ [][Next]_vars

\* Checkpointer beside a process that deletes the pointer file during a load
NextRace ==
    \/ Next
    \/ LoadUnlinked /\ UNCHANGED <<buildVars, testVars, dataVars, metricVars, freezeVars>>

SpecRace == Init /\ [][NextRace]_vars

\* the registry of model builders
InitBuild == CheckpointerIdle /\ BuildInit /\ TestIdle /\ DataIdle /\ MetricIdle /\ FreezeIdle

NextBuild ==
    \/ Build /\ UNCHANGED <<ckptVars, testVars, dataVars, metricVars, freezeVars>>
    \/ Register /\ UNCHANGED <<ckptVars, testVars, dataVars, metricVars, freezeVars>>

SpecBuild == InitBuild /\ [][NextBuild]_vars

\* test_model
InitTest == CheckpointerIdle /\ BuildInit /\ TestInit /\ DataIdle /\ MetricIdle /\ FreezeIdle

NextTest ==
    \/ TestBatch /\ UNCHANGED <<ckptVars, buildVars, dataVars, metricVars, freezeVars>>
    \/ TestReturn /\ UNCHANGED <<ckptVars, buildVars, dataVars, metricVars, freezeVars>>
    \/ TestCall /\ UNCHANGED <<ckptVars, buildVars, dataVars, metricVars, freezeVars>>

SpecTest == InitTest /\ [][NextTest]_vars

\* ShapeNetFewShot
InitData == CheckpointerIdle /\ BuildInit /\ TestIdle /\ DataInit /\ MetricIdle /\ FreezeIdle

NextData == GetItem /\ UNCHANGED <<ckptVars, buildVars, testVars, metricVars, freezeVars>>

SpecData == InitData /\ [][NextData]_vars

\* IntersectionAndUnion
InitMetric == CheckpointerIdle /\ BuildInit /\ TestIdle /\ DataIdle /\ MetricInit /\ FreezeIdle

NextMetric == Forward /\ UNCHANGED <<ckptVars, buildVars, testVars, dataVars, freezeVars>>

SpecMetric == InitMetric /\ [][NextMetric]_vars

\* freeze_by_patterns
InitFreeze == CheckpointerIdle /\ BuildInit /\ TestIdle /\ DataIdle /\ MetricIdle /\ FreezeInit

NextFreeze == Freeze /\ UNCHANGED <<ckptVars, buildVars, testVars, dataVars, metricVars>>

SpecFreeze == InitFreeze /\ [][NextFreeze]_vars

----------------------------------------------------------------------------
\* Properties of the Checkpointer (checked under Spec)

\* the pointer file of tag_file, and the path that its text names
tagPath(tag_file) ==
    IF save_dir = EmptyStr THEN tag_file ELSE save_dir \o <<SEP>> \o tag_file
slashName(name) == save_dir \o <<SEP>> \o name \o PTH
hasSeparator(name) == \E i \in 1..Len(name) : name[i] = SEP

\* C1: after a save(name, tag_file) into a non-empty save_dir, with a name that holds
\* no path separator, get_checkpoint_file(tag_file) is '<save_dir>/<name>.pth', the
\* file of the most recent save, in every state up to the next save.
C1_TagDesignatesLastSave ==
    (lastSave.done /\ ~hasSeparator(lastSave.name))
        => get_checkpoint_file(lastSave.tag) = slashName(lastSave.name)

\* C1 for the names the pointer file can carry: no separator and no leading blank.
PlainNamesDesignated ==
    (lastSave.done /\ ~hasSeparator(lastSave.name) /\ ~startswith(lastSave.name, WS))
        => get_checkpoint_file(lastSave.tag) = slashName(lastSave.name)

\* C2: the file written by save holds the model's state_dict under 'model', an
\* 'optimizer' entry (the optimizer's state_dict) exactly when there is an optimizer
\* and a 'scheduler' entry (the scheduler's state_dict) exactly when there is a
\* scheduler, whatever keyword data was passed.
C2_CheckpointPairsStates ==
    lastSave.done =>
        LET data == ckpts[lastSave.file]
        IN /\ "model" \in DOMAIN data
           /\ data["model"] = state_dict("model", lastSave.m)
           /\ ("optimizer" \in DOMAIN data) <=> (lastSave.o # None)
           /\ (lastSave.o # None) => data["optimizer"] = state_dict("optimizer", lastSave.o)
           /\ ("scheduler" \in DOMAIN data) <=> (lastSave.s # None)
           /\ (lastSave.s # None) => data["scheduler"] = state_dict("scheduler", lastSave.s)

\* C2 for keyword data that does not use the keys 'model', 'optimizer', 'scheduler'.
OtherKeysPairStates ==
    (lastSave.done /\ DOMAIN lastSave.kwargs \cap {"model", "optimizer", "scheduler"} = {})
        => C2_CheckpointPairsStates

\* C3: load hands to _load_file the checkpoint named by the pointer file when resume
\* is true and the pointer file exists, and the caller's f otherwise; a checkpoint
\* that load reads without raising is the one the model's weights come from.
C3_LoadSource ==
    lastOp.op = "load" =>
        LET p == tagPath(lastOp.tag)
            named == strip(texts[p])
        IN /\ (lastOp.resume /\ p \in DOMAIN texts)
                => lastOp.file = (IF isabs(named) THEN named ELSE save_dir \o <<SEP>> \o named)
           /\ (~lastOp.resume \/ p \notin DOMAIN texts) => lastOp.file = lastOp.f
           /\ (lastOp.file # EmptyStr /\ ~lastOp.raised)
                => /\ lastOp.file \in DOMAIN ckpts
                   /\ model = ckpts[lastOp.file]["model"].v

\* C3 witness: resume overrides the caller's f with the pointer's checkpoint.
C3_Witness ==
    /\ lastOp.op = "load" /\ lastOp.resume /\ ~lastOp.raised
    /\ lastOp.f = Pretrained /\ lastOp.file = slashName(<<"a">>)
    /\ model # ckpts[Pretrained]["model"].v

\* C4: load returns the loaded checkpoint without 'model', without 'optimizer' when
\* there is an optimizer and without 'scheduler' when there is a scheduler; load()
\* after save(name, **extra) returns exactly extra and puts model, optimizer and
\* scheduler back to their states at the save.
C4_SaveLoadRoundTrip ==
    /\ (lastOp.op = "load" /\ lastOp.file # EmptyStr /\ ~lastOp.raised)
         => lastOp.ret = without(ckpts[lastOp.file],
                                 {"model"} \cup (IF optimizer # None THEN {"optimizer"} ELSE {})
                                           \cup (IF scheduler # None THEN {"scheduler"} ELSE {}))
    /\ (lastOp.op = "load" /\ lastOp.f = EmptyStr /\ lastOp.resume /\ lastSave.done
          /\ lastOp.tag = lastSave.tag)
         => /\ ~lastOp.raised
            /\ lastOp.ret = lastSave.kwargs
            /\ model = lastSave.m /\ optimizer = lastSave.o /\ scheduler = lastSave.s

\* C4 where the pointer round trip holds and no keyword overrides a state.
PlainRoundTrip ==
    (lastSave.done /\ ~hasSeparator(lastSave.name) /\ ~startswith(lastSave.name, WS)
       /\ DOMAIN lastSave.kwargs \cap {"model", "optimizer", "scheduler"} = {})
        => C4_SaveLoadRoundTrip

\* C5: a load with an empty f that does not resume, or finds no pointer file,
\* returns {} without raising and changes none of model, optimizer, scheduler.
C5_NoCheckpointFound ==
    [][(/\ lastOp'.op = "load"
        /\ lastOp'.f = EmptyStr
        /\ (~lastOp'.resume \/ ~exists(tagPath(lastOp'.tag))))
       => /\ lastOp'.ret = EmptyDict
          /\ ~lastOp'.raised
          /\ UNCHANGED <<model, optimizer, scheduler>>]_vars

\* C5 witness: trained weights, a pointer file on disk, and a load that does not resume.
C5_Witness ==
    /\ lastOp.op = "load" /\ lastOp.f = EmptyStr /\ ~lastOp.resume
    /\ exists(tagPath(lastOp.tag))
    /\ lastOp.ret = EmptyDict /\ ~lastOp.raised
    /\ model = MaxStep

\* C6: right after a save that wrote its file, get_checkpoint_file returns the path
\* of that file, os.path.join(save_dir, name + '.pth'); the pointer file holds the
\* basename of a relative path and an absolute path as it is.
C6_PointerRoundTrip ==
    (lastOp.op = "save" /\ lastOp.file # EmptyStr)
        => /\ lastOp.file = join(save_dir, pth(lastOp.name))
           /\ lastOp.file \in DOMAIN ckpts
           /\ texts[tagPath(lastOp.tag)] =
                 (IF isabs(lastOp.file) THEN lastOp.file ELSE basename(lastOp.file))
           /\ get_checkpoint_file(lastOp.tag) = lastOp.file

----------------------------------------------------------------------------
\* Properties of the registry (checked under SpecBuild)

\* C7: build_model(cfg) returns what the builder registered under cfg.MODEL.TYPE
\* returns for cfg; a name registered with success is built by the builder it was
\* registered with, and every name keeps the builder it was first registered with.
C7_ConfigSelectsModel ==
    /\ (lastBuild.op = "build" /\ lastBuild.cfg.TYPE \in DOMAIN origin)
         => /\ ~lastBuild.raised
            /\ lastBuild.result = [builder |-> origin[lastBuild.cfg.TYPE], arg |-> lastBuild.cfg]
    /\ (lastBuild.op = "register" /\ ~lastBuild.raised)
         => /\ lastBuild.name \in DOMAIN MODEL_BUILDERS
            /\ MODEL_BUILDERS[lastBuild.name] = lastBuild.builder
    /\ \A n \in DOMAIN origin : n \in DOMAIN MODEL_BUILDERS /\ MODEL_BUILDERS[n] = origin[n]

\* C7 witness: a model type registered after import is built by its own builder.
C7_Witness ==
    /\ lastBuild.op = "build" /\ ~lastBuild.raised
    /\ lastBuild.cfg.TYPE = "FEWSHOT"
    /\ lastBuild.result.builder = "build_fewshot"
    /\ "PN2SSG_COMPARE" \in DOMAIN MODEL_BUILDERS

\* C8: registering a name that is registered already (the six built-in names
\* included) raises and leaves the registry as it was; no step replaces or removes
\* a registered builder.
C8_NoDuplicateRegistration ==
    [][/\ (lastBuild'.op = "register" /\ lastBuild'.name \in DOMAIN MODEL_BUILDERS)
          => (lastBuild'.raised /\ MODEL_BUILDERS' = MODEL_BUILDERS)
       /\ \A n \in DOMAIN MODEL_BUILDERS :
             n \in DOMAIN MODEL_BUILDERS' /\ MODEL_BUILDERS'[n] = MODEL_BUILDERS[n]]_vars

\* C8 witness: a built-in name was registered again, with another builder, in vain.
C8_Witness ==
    /\ lastBuild.op = "register" /\ lastBuild.raised
    /\ lastBuild.name = "S2CNN" /\ lastBuild.builder = "build_fewshot"
    /\ MODEL_BUILDERS["S2CNN"] = "build_s2cnn"
    /\ "FEWSHOT" \in DOMAIN MODEL_BUILDERS

----------------------------------------------------------------------------
\* Properties of test_model (checked under SpecTest)

\* the samples in the order the data loader yields them
RECURSIVE yielded(_)
yielded(loader) == IF loader = <<>> THEN <<>> ELSE Head(loader) \o yielded(Tail(loader))

\* C9: the returned array of every prediction key has one row per sample yielded,
\* and row j is the model's output for the j-th sample yielded.
C9_PredictionsInLoaderOrder ==
    pc = "done" =>
        LET samples == yielded(data_loader)
        IN /\ DOMAIN test_result_dict = (IF data_loader = <<>> THEN {} ELSE PredKeys)
           /\ \A k \in DOMAIN test_result_dict :
                 /\ Len(test_result_dict[k]) = Len(samples)
                 /\ \A j \in 1..Len(samples) :
                       test_result_dict[k][j] = forward(k, samples[j])

\* C9 witness: a call returned for a loader of several batches that differ.
C9_Witness ==
    /\ pc = "done"
    /\ Len(data_loader) = MaxBatches
    /\ data_loader[1] # data_loader[MaxBatches]
    /\ Len(test_result_dict["cls_logits"]) > MaxBatches

\* C10: without labels neither loss_fn nor metric_fn is invoked, and the predictions
\* returned are those of the call with labels on the same model and loader.
C10_WithoutLabels ==
    /\ ~with_label => (loss_calls = 0 /\ metric_calls = 0 /\ meters = 0)
    /\ (returned[TRUE].set /\ returned[FALSE].set)
          => returned[TRUE].preds = returned[FALSE].preds

\* C10 witness: both kinds of call returned, the last one without labels.
C10_Witness ==
    /\ pc = "done" /\ ~with_label
    /\ returned[TRUE].set /\ returned[FALSE].set
    /\ data_loader # <<>>
    /\ loss_calls = 0

----------------------------------------------------------------------------
\* Properties of ShapeNetFewShot.__getitem__ (checked under SpecData)

\* C11: for a sample of n >= 1 points, __getitem__ returns exactly num_points points
\* when num_points > 0 and all n points when num_points is -1, and every point it
\* returns is a point of the sample's file.
C11_NumberOfPoints ==
    item.called =>
        LET original == load_pts(item.index)
        IN /\ num_points > 0 => Len(item.points) = num_points
           /\ num_points = -1 => Len(item.points) = Len(original)
           /\ \A i \in 1..Len(item.points) : \E j \in 1..Len(original) : item.points[i] = original[j]

\* C11 as the code has it: padding adds at most n points, once.
PaddedAtMostOnce ==
    item.called =>
        LET original == load_pts(item.index)
            n == Len(original)
        IN /\ Len(item.points) = (IF num_points <= 0 THEN n
                                  ELSE IF num_points <= 2 * n THEN num_points ELSE 2 * n)
           /\ \A i \in 1..Len(item.points) : \E j \in 1..n : item.points[i] = original[j]
           /\ item.cls_labels = classes_to_ind_map(meta_data[item.index].class)

----------------------------------------------------------------------------
\* Properties of IntersectionAndUnion.forward (checked under SpecMetric)

----------------------------------------------------------------------------
\* Properties of freeze_by_patterns (checked under SpecFreeze)

\* the module patterns and parameter patterns of a call, by the 'module:' prefix
modulePatterns(patterns) ==
    {SubSeq(patterns[i], Len(ModulePrefix) + 1, Len(patterns[i])) :
        i \in {j \in 1..Len(patterns) : startswith_str(patterns[j], ModulePrefix)}}
paramPatterns(patterns) ==
    {patterns[i] : i \in {j \in 1..Len(patterns) : ~startswith_str(patterns[j], ModulePrefix)}}

\* the submodules whose full name matches some module pattern
matchedModules(patterns) ==
    {m \in Modules \ {ROOT} : \E re \in modulePatterns(patterns) : search(re, m)}
\* the parameters whose name matches some parameter pattern
matchedParams(patterns) ==
    {p \in Parameters : \E re \in paramPatterns(patterns) : search(re, p)}
\* the modules and parameters that lie in the subtree of a matched module
underMatchedModules(patterns) == UNION {named_modules(m) : m \in matchedModules(patterns)}
underMatchedParams(patterns) == UNION {named_parameters(m) : m \in matchedModules(patterns)}

\* C13: after freeze_by_patterns, every parameter matching a parameter pattern has
\* requires_grad False, every submodule matching a module pattern (a pattern that
\* starts with 'module:', prefix stripped) is in eval mode with all its parameters
\* frozen, and a parameter or module that matches nothing and lies under no matched
\* module keeps its flag.
C13_FreezeByPatterns ==
    [][LET patterns == frozen'.patterns
       IN /\ \A p \in matchedParams(patterns) : ~requires_grad'[p]
          /\ \A m \in matchedModules(patterns) :
                /\ ~training'[m]
                /\ \A p \in named_parameters(m) : ~requires_grad'[p]
          /\ \A p \in Parameters \ (matchedParams(patterns) \cup underMatchedParams(patterns)) :
                requires_grad'[p] = requires_grad[p]
          /\ \A m \in Modules \ underMatchedModules(patterns) :
                training'[m] = training[m]]_vars

\* C13 witness: one module pattern and one parameter pattern have acted: a.b is
\* frozen as a module, b.w as a parameter, and a, b, a.w and w are as they were.
C13_Witness ==
    /\ frozen.called
    /\ frozen.patterns = <<ModulePrefix \o <<"a", ".", "b">>, <<"^", "b">>>>
    /\ ~training[<<"a", ".", "b">>]
    /\ ~requires_grad[<<"a", ".", "b", ".", "w">>]
    /\ ~requires_grad[<<"b", ".", "w">>]
    /\ training[<<"a">>] /\ training[<<"b">>] /\ training[ROOT]
    /\ requires_grad[<<"a", ".", "w">>] /\ requires_grad[<<"w">>]

----------------------------------------------------------------------------
\* Properties of Checkpointer.load beside another process (checked under SpecRace)

\* C14: when the pointer file is deleted between has_checkpoint and
\* get_checkpoint_file, get_checkpoint_file returns "" and load(resume=True) does not
\* raise: it returns {} and leaves the model (and optimizer, scheduler) unchanged,
\* whatever f the caller passed.
C14_PointerDeletedDuringLoad ==
    [][(\E tag_file \in TagFiles :
            /\ lastOp'.op = "load" /\ lastOp'.resume /\ lastOp'.tag = tag_file
            /\ has_checkpoint(tag_file)
            /\ ~has_checkpoint(tag_file)')
       => /\ lastOp'.file = EmptyStr
          /\ ~lastOp'.raised
          /\ lastOp'.ret = EmptyDict
          /\ UNCHANGED <<model, optimizer, scheduler, ckpts>>]_vars

\* C14 witness: a save wrote the pointer file, training went on, and a resuming load
\* that was handed an existing file found the pointer gone: it returned {} and the
\* trained weights are still in place.
C14_Witness ==
    /\ lastSave.done
    /\ lastOp.op = "load" /\ lastOp.resume /\ lastOp.f = Pretrained
    /\ ~has_checkpoint(lastOp.tag)
    /\ lastOp.file = EmptyStr /\ lastOp.ret = EmptyDict /\ ~lastOp.raised
    /\ model = MaxStep

\* C15: whenever load raises (unreadable file, checkpoint without a 'model' entry, a
\* state dict rejected by the model, the optimizer or the scheduler), that call has
\* modified none of model, optimizer and scheduler.
C15_LoadErrorsLeaveState ==
    [][(lastOp'.op = "load" /\ lastOp'.raised)
       => UNCHANGED <<model, optimizer, scheduler>>]_vars

\* a load that raises before the first load_state_dict returns (the file cannot be
\* read, it holds no 'model' entry, or the model rejects the entry) has modified
\* nothing
RaisedBeforeModelLoaded ==
    [][(/\ lastOp'.op = "load" /\ lastOp'.raised
        /\ \/ lastOp'.file \notin DOMAIN ckpts
           \/ "model" \notin DOMAIN ckpts[lastOp'.file]
           \/ ~accepts("model", ckpts[lastOp'.file]["model"]))
       => UNCHANGED <<model, optimizer, scheduler>>]_vars

====
